---- MODULE Spec2Model ----
(***************************************************************************)
(* yaorust (src/src/main.rs).                                              *)
(* Spec: the sync command `yao -S <names>`.  One behaviour is one          *)
(* invocation of the program.  The file system, the two repositories and   *)
(* the outcome of every external process are the environment: fixed parts  *)
(* are chosen in Init, per-call outcomes are chosen by the action that     *)
(* makes the call.                                                         *)
(* RelaySpec: one call of run_command_printing or of                       *)
(* run_command_printing_abort_ok, with the child and the two relay         *)
(* threads as concurrent processes.                                        *)
(* GetSpec: the fetch-only command `yao -G <names>`.                       *)
(***************************************************************************)
EXTENDS Integers, Sequences, FiniteSets, TLC

VARIABLES
    pkgs,        \* cli.pkgs: the requested names, in request order
    force,       \* cli.force
    isRoot,      \* is_root(): geteuid() == 0
    missing,     \* external programs that are not found on PATH
    inRepo,      \* names for which `pacman -Si` succeeds
    inAur,       \* names the AUR RPC reports with an exact match
    cache,       \* names whose <name>.tar.gz exists in cfg.snapshot_cache
    destFiles,   \* artifact paths that exist (PKGDEST or wherever they point)
    tmp,         \* download_snapshot: the NamedTempFile and the name it is for
    pc,          \* position of the single thread of control
    i,           \* cmd_sync: index of the classification loop
    j,           \* cmd_sync: index of the AUR loop
    repo_pkgs,   \* cmd_sync: repo_pkgs
    aur_pkgs,    \* cmd_sync: aur_pkgs
    plan,        \* cmd_sync: plan (name, kind)
    workspace,   \* aur_build_install: the TempDir exists
    localFiles,  \* aur_build_install: package files inside build_dir
    hasPkgbuild, \* aur_build_install: build_dir/PKGBUILD is a file
    targets,     \* aur_build_install: targets of the current or the last call
    exit,        \* process exit: "running", "ok" (status 0), "err" (non-zero)
    error,       \* the error main returns ("none" while there is none)
    lastPrompt,  \* the line read by the prompt_yes_no call of the last step
    log,         \* history: what cmd_sync did and every network request, in order
    steps,       \* history: what the current or the last aur_build_install call did
    runner,      \* the inside of one run_command_printing call: the caller,
                 \* the child, its two pipes and the two relay threads
    dirs         \* working directory: per name, whether ./<name> is absent
                 \* ("none"), was there before ("old"), was saved by -G ("new")
                 \* or is what a failed removal left of it ("damaged")

vars == <<pkgs, force, isRoot, missing, inRepo, inAur, cache, destFiles, tmp, pc, i, j,
          repo_pkgs, aur_pkgs, plan, workspace, localFiles, hasPkgbuild,
          targets, exit, error, lastPrompt, log, steps, runner, dirs>>

(* ------------------------------ bounds -------------------------------- *)

\* Most chunks a child writes to one of its two streams.
MaxChunks == 2

MaxPkgs == 2

Names == {"a", "b"}

(* ----------------------------- strings -------------------------------- *)
\* A string is a sequence of one-character strings.

WhiteSpace == {" ", "\t", "\n", "\r"}

RECURSIVE TrimStart(_)
TrimStart(s) ==
    IF s # <<>> /\ Head(s) \in WhiteSpace THEN TrimStart(Tail(s)) ELSE s

RECURSIVE TrimEnd(_)
TrimEnd(s) ==
    IF s # <<>> /\ s[Len(s)] \in WhiteSpace
    THEN TrimEnd(SubSeq(s, 1, Len(s) - 1))
    ELSE s

\* str::trim
Trim(s) == TrimEnd(TrimStart(s))

LowerChar(c) ==
    CASE c = "Y" -> "y"
      [] c = "E" -> "e"
      [] c = "S" -> "s"
      [] c = "N" -> "n"
      [] c = "O" -> "o"
      [] OTHER -> c

\* str::to_lowercase
ToLowercase(s) == [k \in 1..Len(s) |-> LowerChar(s[k])]

\* The pieces of s between "\n" separators (the last piece may be empty).
RECURSIVE SplitNewline(_, _)
SplitNewline(s, cur) ==
    IF s = <<>> THEN <<cur>>
    ELSE IF Head(s) = "\n" THEN <<cur>> \o SplitNewline(Tail(s), <<>>)
    ELSE SplitNewline(Tail(s), Append(cur, Head(s)))

StripCr(l) ==
    IF l # <<>> /\ l[Len(l)] = "\r" THEN SubSeq(l, 1, Len(l) - 1) ELSE l

\* str::lines: split at "\n", no empty piece after a final "\n", one
\* trailing "\r" removed from each line.
Lines(s) ==
    LET pieces == SplitNewline(s, <<>>)
        kept == IF pieces[Len(pieces)] = <<>>
                THEN SubSeq(pieces, 1, Len(pieces) - 1)
                ELSE pieces
    IN [k \in 1..Len(kept) |-> StripCr(kept[k])]

RECURSIVE SelectNonEmptyTrimmed(_)
SelectNonEmptyTrimmed(ls) ==
    IF ls = <<>> THEN <<>>
    ELSE LET trimmed == Trim(Head(ls))
         IN (IF trimmed # <<>> THEN <<trimmed>> ELSE <<>>)
                \o SelectNonEmptyTrimmed(Tail(ls))

Range(s) == {s[k] : k \in 1..Len(s)}

(* ------------------------- prompt_yes_no ------------------------------ *)

\* Lines the user may type (read_line keeps the newline; <<>> is end of file).
InputLines ==
    { <<>>, <<"\n">>, <<"Y", "\r", "\n">>, <<" ", "Y", "E", "s", "\n">>,
      <<"n", "\n">>, <<"N", "o", " ", "\n">>, <<"y", "e", "\n">> }

\* The prompt_yes_no call of a step: which prompt, the line read, the result.
Asked(prompt, line, result) ==
    [asked |-> TRUE, prompt |-> prompt, line |-> line, result |-> result]

NoPrompt == [asked |-> FALSE, prompt |-> "none", line |-> <<>>, result |-> FALSE]

prompt_yes_no_CaseSensitive(input) ==
    LET answer == Trim(input)
    IN answer = <<>> \/ answer = <<"y">> \/ answer = <<"y", "e", "s">>

prompt_yes_no(input) ==
    LET answer == ToLowercase(Trim(input))
    IN IF answer = <<>> \/ answer = <<"y">> \/ answer = <<"y", "e", "s">>
       THEN TRUE
       ELSE FALSE

(* ------------------------ process invocations ------------------------- *)

\* An argv token is a string, written as a sequence of pieces.
Tok(s) == <<s>>

ToksOf(names) == [k \in 1..Len(names) |-> Tok(names[k])]

Command(prog, args) == [prog |-> prog, args |-> args]

cfg_pacman == Tok("pacman")
cfg_sudo == Tok("sudo")

\* The tokens joined into one string.
RECURSIVE Joined(_)
Joined(toks) == IF toks = <<>> THEN <<>> ELSE Head(toks) \o <<" ">> \o Joined(Tail(toks))

with_sudo_ShellString(cmd) == Command(cfg_sudo, <<Joined(<<cmd.prog>> \o cmd.args)>>)

\* with_sudo: sudo, then the program, then its arguments.
with_sudo(cmd) == Command(cfg_sudo, <<cmd.prog>> \o cmd.args)

\* ExitStatus: a process ends with an exit code or is killed by a signal.
DeclinedCode == 1

ExitStatuses ==
    { [exited |-> TRUE, code |-> 0], [exited |-> TRUE, code |-> DeclinedCode],
      [exited |-> TRUE, code |-> 2], [exited |-> FALSE, code |-> 0] }

\* The status field of a history entry that is not a waited-for child.
NoStatus == [exited |-> FALSE, code |-> -1]

Success(status) == status.exited /\ status.code = 0

\* Result of extract_tgz once bsdtar was spawned: "ok" or "err".
extract_tgz(status) == IF Success(status) THEN "ok" ELSE "err"

run_command_printing_Code1Ok(status) ==
    IF Success(status) \/ (status.exited /\ status.code = DeclinedCode) THEN "ok" ELSE "err"

\* Result of run_command_printing: "ok" or "err".
run_command_printing(status) == IF Success(status) THEN "ok" ELSE "err"

\* Result of run_command_printing_abort_ok: "ok", "aborted" (Ok(()) after
\* the abort notice) or "err".
run_command_printing_abort_ok(status) ==
    IF ~Success(status)
    THEN IF status.exited /\ status.code = DeclinedCode THEN "aborted" ELSE "err"
    ELSE "ok"

\* The command pacman_install_repo runs.
pacman_install_repo(names) ==
    LET cmd == Command(cfg_pacman, <<Tok("-S")>> \o ToksOf(names))
    IN IF ~isRoot THEN with_sudo(cmd) ELSE cmd

\* The command step 6 of aur_build_install runs.
pacman_install_files(paths) ==
    LET pac == Command(cfg_pacman, <<Tok("-U")>> \o paths)
    IN IF ~isRoot THEN with_sudo(pac) ELSE pac

NoCmd == Command(<<>>, <<>>)

\* The external programs the sync command runs by name.
Tools == {"bsdtar", "makepkg", "pacman", "sudo"}

\* ensure_tools: which() of bsdtar, makepkg and cfg.pacman.
ensure_tools ==
    IF \E bin \in {"bsdtar", "makepkg", cfg_pacman[1]} : bin \in missing
    THEN "tool_missing"
    ELSE "ok"

\* Command::spawn finds the program of the command line.
Spawns(cmd) == cmd.prog[1] \notin missing

\* An entry of the histories: what was done, for which package, the command
\* line where the claims need it, the captured stdout where there is one.
Captured(op, name, cmd, out) ==
    [op |-> op, name |-> name, cmd |-> cmd, out |-> out, status |-> NoStatus]

Event(op, name, cmd) == Captured(op, name, cmd, <<>>)

\* The entry of a child process that was waited for, with its ExitStatus.
Exited(op, name, cmd, status) ==
    [op |-> op, name |-> name, cmd |-> cmd, out |-> <<>>, status |-> status]

(* --------------------------- packagelist ------------------------------ *)

\* What `makepkg --packagelist` may print on stdout.
ListingOutputs ==
    { <<>>,
      <<"\n", " ", "\t", "\n">>,
      <<"p">>,
      <<" ", "q", " ", "\r", "\n", "\n", "p", "\n">> }

AllPaths == {<<"p">>, <<"q">>}

packagelist_KeepBlank(stdout) ==
    [k \in 1..Len(Lines(stdout)) |-> Trim(Lines(stdout)[k])]

\* The parsing loop of packagelist.
packagelist(stdout) == SelectNonEmptyTrimmed(Lines(stdout))

(* ------------------------------ Init ---------------------------------- *)

Requests == UNION {[1..n -> Names] : n \in 0..MaxPkgs}

\* What an extracted snapshot may hold: <name>/ or not, PKGBUILD or not,
\* files named like the artifacts or not.
Snapshots ==
    { [dir |-> FALSE, recipe |-> FALSE, files |-> {}],
      [dir |-> TRUE, recipe |-> FALSE, files |-> {}],
      [dir |-> TRUE, recipe |-> TRUE, files |-> {}],
      [dir |-> TRUE, recipe |-> TRUE, files |-> {<<"p">>}] }

\* The NamedTempFile of download_snapshot: the name whose archive it is to
\* become, and whether the body is in it in part or in full.
TmpFile(name, content) == [name |-> name, content |-> content]

NoTmp == TmpFile("", "none")

\* No runner call is looked into.
RunIdle ==
    [variant |-> "none", pos |-> "idle", child |-> "none", status |-> NoStatus,
     leftOut |-> 0, leftErr |-> 0, pipeOut |-> 0, pipeErr |-> 0,
     fwdOut |-> 0, fwdErr |-> 0, t1 |-> "none", t2 |-> "none", result |-> "none"]

\* The environment is arbitrary where the invocation can observe it: the
\* repositories are only asked about requested names, the cache only about
\* names that are built, the artifact paths only when something is built.
\* Names are interchangeable, so the first requested name is "a".
Init ==
    /\ pkgs \in Requests
    /\ (pkgs # <<>>) => pkgs[1] = "a"
    /\ force \in BOOLEAN
    /\ isRoot \in BOOLEAN
    /\ missing \in SUBSET Tools
    /\ (missing \cap {"bsdtar", "makepkg", "pacman"} # {}) =>
         (~force /\ ~isRoot /\ inRepo = {} /\ inAur = {})
    /\ ("sudo" \in missing) => (~isRoot /\ ~force /\ cache = {} /\ destFiles = {})
    /\ inRepo \in SUBSET Range(pkgs)
    /\ inAur \in SUBSET Range(pkgs)
    /\ cache \in SUBSET (inAur \ inRepo)
    /\ destFiles \in SUBSET AllPaths
    /\ (inAur \ inRepo = {}) => (destFiles = {} /\ ~force)
    /\ tmp = NoTmp
    /\ pc = "main"
    /\ i = 1
    /\ j = 1
    /\ repo_pkgs = <<>>
    /\ aur_pkgs = <<>>
    /\ plan = <<>>
    /\ workspace = FALSE
    /\ localFiles = {}
    /\ hasPkgbuild = FALSE
    /\ targets = <<>>
    /\ exit = "running"
    /\ error = "none"
    /\ lastPrompt = NoPrompt
    /\ log = <<>>
    /\ steps = <<>>
    /\ runner = RunIdle
    /\ dirs = [n \in Names |-> "none"]

(* ----------------------------- helpers -------------------------------- *)

\* What no step of cmd_sync changes.  The sync actions take a runner call as
\* one step with the ExitStatus as its outcome; its inside is RelaySpec.
env == <<pkgs, force, isRoot, missing, inRepo, inAur, runner, dirs>>
syncLocals == <<i, j, repo_pkgs, aur_pkgs, plan>>
buildLocals == <<workspace, localFiles, hasPkgbuild, tmp>>

DropBuildLocals_LeakTempDir ==
    /\ tmp' = NoTmp
    /\ UNCHANGED <<workspace, localFiles, hasPkgbuild>>

\* aur_build_install is left: the TempDir is dropped with all it holds, and
\* so is a NamedTempFile that was not persisted.
DropBuildLocals ==
    /\ tmp' = NoTmp
    /\ workspace' = FALSE
    /\ localFiles' = {}
    /\ hasPkgbuild' = FALSE

Bail_KeepGoing(e) ==
    /\ pc' = "aur_loop"
    /\ exit' = "running"
    /\ error' = e
    /\ DropBuildLocals

\* main returns Err(e): the process exits with a non-zero status.
Bail(e) ==
    /\ pc' = "exit"
    /\ exit' = "err"
    /\ error' = e
    /\ DropBuildLocals

ReturnOk_NonZero ==
    /\ pc' = "exit"
    /\ exit' = "err"
    /\ error' = "none"
    /\ DropBuildLocals

\* main returns Ok(()): the process exits with status 0.
ReturnOk ==
    /\ pc' = "exit"
    /\ exit' = "ok"
    /\ error' = "none"
    /\ DropBuildLocals

Logged(events) == log' = log \o events

Stepped(events) == steps' = steps \o events

AbortNotice == Event("abort_notice", "", NoCmd)

(* -------------------------------- main -------------------------------- *)

\* main: ensure_tools, the two create_dir_all, then cmd_sync up to its loop.
Main ==
    /\ pc = "main"
    /\ \E mkdir \in {"mkdir_failed", "ok"} :
         IF ensure_tools # "ok"
         THEN mkdir = "ok" /\ Bail(ensure_tools)
         ELSE IF mkdir # "ok"
         THEN Bail(mkdir)
         ELSE IF pkgs = <<>>
         THEN Bail("no_packages")
         ELSE /\ pc' = "classify"
              /\ UNCHANGED <<exit, error, buildLocals>>
    /\ lastPrompt' = NoPrompt
    /\ UNCHANGED <<env, syncLocals, cache, destFiles, targets, log, steps>>

(* ------------------------------ cmd_sync ------------------------------ *)

\* classify_pkg: "Repo", "Aur", or the error it returns.  `response` is the
\* outcome of the RPC request, made only when the probe has failed.
classify_pkg_AurFirst(name, response) ==
    IF response = "ok" /\ name \in inAur THEN "Aur"
    ELSE IF name \in inRepo THEN "Repo"
    ELSE IF response = "http_error" THEN "rpc_failed"
    ELSE "not_found"

classify_pkg_Lenient(name, response) ==
    IF name \in inRepo THEN "Repo"
    ELSE IF response = "http_error" THEN "rpc_failed"
    ELSE "Aur"

classify_pkg(name, response) ==
    IF name \in inRepo THEN "Repo"
    ELSE IF response = "http_error" THEN "rpc_failed"
    ELSE IF name \in inAur THEN "Aur"
    ELSE "not_found"

\* One iteration of the planning loop: classify_pkg, then the pushes.
Classify ==
    /\ pc = "classify"
    /\ i <= Len(pkgs)
    /\ \E response \in {"http_error", "ok"} :
         LET p == pkgs[i]
             kind == classify_pkg(p, response)
             probe == Event("pacman_Si", p, NoCmd)
             rpc == Event("aur_rpc", p, NoCmd)
         IN /\ (p \in inRepo) => response = "ok"
            /\ Logged(IF p \in inRepo THEN <<probe>> ELSE <<probe, rpc>>)
            /\ IF kind \in {"Repo", "Aur"}
               THEN /\ repo_pkgs' = IF kind = "Repo" THEN Append(repo_pkgs, p) ELSE repo_pkgs
                    /\ aur_pkgs' = IF kind = "Aur" THEN Append(aur_pkgs, p) ELSE aur_pkgs
                    /\ plan' = Append(plan, [name |-> p, kind |-> kind])
                    /\ i' = i + 1
                    /\ UNCHANGED <<pc, exit, error, buildLocals>>
               ELSE /\ Bail(kind)
                    /\ UNCHANGED <<i, repo_pkgs, aur_pkgs, plan>>
    /\ j' = j
    /\ lastPrompt' = NoPrompt
    /\ UNCHANGED <<env, cache, destFiles, targets, steps>>

\* After the loop: the empty check, the pure-repo shortcut, the plan display.
Planned ==
    /\ pc = "classify"
    /\ i > Len(pkgs)
    /\ IF repo_pkgs = <<>> /\ aur_pkgs = <<>>
       THEN Bail("nothing_found")
       ELSE /\ pc' = IF aur_pkgs = <<>> THEN "repo_only" ELSE "confirm"
            /\ UNCHANGED <<exit, error, buildLocals>>
    /\ lastPrompt' = NoPrompt
    /\ UNCHANGED <<env, syncLocals, cache, destFiles, targets, log, steps>>

\* return pacman_install_repo(cfg, &repo_pkgs)
RepoOnly ==
    /\ pc = "repo_only"
    /\ \E status \in ExitStatuses :
         LET run == Exited("pacman_S", "", pacman_install_repo(repo_pkgs), status)
             res == run_command_printing_abort_ok(status)
         IN IF ~Spawns(run.cmd)
            THEN /\ Success(status)
                 /\ Bail("spawn_failed")
                 /\ UNCHANGED log
            ELSE /\ Logged(IF res = "aborted" THEN <<run, AbortNotice>> ELSE <<run>>)
                 /\ IF res = "err" THEN Bail("install_failed") ELSE ReturnOk
    /\ lastPrompt' = NoPrompt
    /\ UNCHANGED <<env, syncLocals, cache, destFiles, targets, steps>>

Confirm_NoGate ==
    /\ pc = "confirm"
    /\ \E line \in InputLines :
         LET yes == prompt_yes_no(line)
         IN /\ lastPrompt' = Asked("proceed", line, yes)
            /\ pc' = "repo_step"
            /\ Logged(<<Event(IF yes THEN "confirm_yes" ELSE "confirm_no", "", NoCmd)>>)
            /\ UNCHANGED <<exit, error, buildLocals>>
    /\ UNCHANGED <<env, syncLocals, cache, destFiles, targets, steps>>

\* if !prompt_yes_no(":: Proceed with installation? [Y/n] ")? { ... }
Confirm ==
    /\ pc = "confirm"
    /\ \E line \in InputLines :
         LET yes == prompt_yes_no(line)
         IN /\ lastPrompt' = Asked("proceed", line, yes)
            /\ IF yes
               THEN /\ pc' = "repo_step"
                    /\ Logged(<<Event("confirm_yes", "", NoCmd)>>)
                    /\ UNCHANGED <<exit, error, buildLocals>>
               ELSE /\ ReturnOk
                    /\ Logged(<<Event("confirm_no", "", NoCmd), AbortNotice>>)
    /\ UNCHANGED <<env, syncLocals, cache, destFiles, targets, steps>>

\* 1) if !repo_pkgs.is_empty() { pacman_install_repo(cfg, &repo_pkgs)?; }
RepoStep ==
    /\ pc = "repo_step"
    /\ IF repo_pkgs = <<>>
       THEN /\ pc' = "aur_loop"
            /\ UNCHANGED <<exit, error, buildLocals, log>>
       ELSE \E status \in ExitStatuses :
              LET run == Exited("pacman_S", "", pacman_install_repo(repo_pkgs), status)
                  res == run_command_printing_abort_ok(status)
              IN IF ~Spawns(run.cmd)
                 THEN /\ Success(status)
                      /\ Bail("spawn_failed")
                      /\ UNCHANGED log
                 ELSE /\ Logged(IF res = "aborted" THEN <<run, AbortNotice>> ELSE <<run>>)
                      /\ IF res = "err"
                         THEN Bail("install_failed")
                         ELSE /\ pc' = "aur_loop"
                              /\ UNCHANGED <<exit, error, buildLocals>>
    /\ lastPrompt' = NoPrompt
    /\ UNCHANGED <<env, syncLocals, cache, destFiles, targets, steps>>

\* The AUR loop has no item left: Ok(())
SyncDone ==
    /\ pc = "aur_loop"
    /\ j > Len(aur_pkgs)
    /\ ReturnOk
    /\ lastPrompt' = NoPrompt
    /\ UNCHANGED <<env, syncLocals, cache, destFiles, targets, log, steps>>

(* -------------------------- aur_build_install ------------------------- *)

CurrentPkg_Reversed == aur_pkgs[Len(aur_pkgs) - j + 1]

\* for p in aur_pkgs: the item of the current iteration
CurrentPkg == aur_pkgs[j]

\* aur_build_install returns Ok(()): back in the loop of cmd_sync.
NextAurPkg ==
    /\ pc' = "aur_loop"
    /\ j' = j + 1
    /\ DropBuildLocals
    /\ UNCHANGED <<exit, error, i, repo_pkgs, aur_pkgs, plan>>

download_snapshot_NoCache(name, response) ==
    /\ Logged(<<Event("aur_building", name, NoCmd), Event("http_get", name, NoCmd)>>)
    /\ UNCHANGED cache
    /\ IF response = "ok"
       THEN /\ tmp' = TmpFile(name, "partial")
            /\ pc' = "copy"
            /\ UNCHANGED <<exit, error, workspace, localFiles, hasPkgbuild>>
       ELSE Bail(response)

download_snapshot_InPlace(name, response) ==
    IF name \in cache
    THEN /\ pc' = "tempdir"
         /\ Logged(<<Event("aur_building", name, NoCmd)>>)
         /\ UNCHANGED <<cache, exit, error, buildLocals>>
    ELSE /\ Logged(<<Event("aur_building", name, NoCmd), Event("http_get", name, NoCmd)>>)
         /\ IF response = "ok"
            THEN /\ cache' = cache \cup {name}
                 /\ tmp' = TmpFile(name, "partial")
                 /\ pc' = "copy"
                 /\ UNCHANGED <<exit, error, workspace, localFiles, hasPkgbuild>>
            ELSE Bail(response) /\ UNCHANGED cache

\* download_snapshot up to the creation of the temporary file: the cache
\* check, the request, the status test, NamedTempFile::new_in.
download_snapshot(name, response) ==
    IF name \in cache
    THEN /\ pc' = "tempdir"
         /\ Logged(<<Event("aur_building", name, NoCmd)>>)
         /\ UNCHANGED <<cache, exit, error, buildLocals>>
    ELSE /\ Logged(<<Event("aur_building", name, NoCmd), Event("http_get", name, NoCmd)>>)
         /\ UNCHANGED cache
         /\ IF response = "ok"
            THEN /\ tmp' = TmpFile(name, "partial")
                 /\ pc' = "copy"
                 /\ UNCHANGED <<exit, error, workspace, localFiles, hasPkgbuild>>
            ELSE Bail(response)

\* 1) let tgz = download_snapshot(client, cfg, name)?;
Fetch ==
    /\ pc = "aur_loop"
    /\ j <= Len(aur_pkgs)
    /\ \E response \in {"download_failed", "io_error", "ok"} :
         download_snapshot(CurrentPkg, response)
    /\ steps' = <<>>
    /\ targets' = <<>>
    /\ lastPrompt' = NoPrompt
    /\ UNCHANGED <<env, syncLocals, destFiles>>

\* io::copy(&mut resp, &mut tmp)?: the body arrives in full or the transfer
\* fails midway.
Copy ==
    /\ pc = "copy"
    /\ \E copied \in BOOLEAN :
         IF copied
         THEN /\ tmp' = TmpFile(tmp.name, "full")
              /\ pc' = "persist"
              /\ UNCHANGED <<exit, error, workspace, localFiles, hasPkgbuild>>
         ELSE Bail("copy_failed")
    /\ lastPrompt' = NoPrompt
    /\ UNCHANGED <<env, syncLocals, cache, destFiles, targets, log, steps>>

\* tmp.persist(&out)?: the temporary file is renamed to the cache path.
Persist ==
    /\ pc = "persist"
    /\ \E renamed \in BOOLEAN :
         IF renamed
         THEN /\ cache' = cache \cup {tmp.name}
              /\ tmp' = NoTmp
              /\ pc' = "tempdir"
              /\ UNCHANGED <<exit, error, workspace, localFiles, hasPkgbuild>>
         ELSE Bail("persist_failed") /\ UNCHANGED cache
    /\ lastPrompt' = NoPrompt
    /\ UNCHANGED <<env, syncLocals, destFiles, targets, log, steps>>

\* let tmp = TempDir::new()?;
MkTempDir ==
    /\ pc = "tempdir"
    /\ \E created \in BOOLEAN :
         IF created
         THEN /\ workspace' = TRUE
              /\ pc' = "extract"
              /\ UNCHANGED <<exit, error, localFiles, hasPkgbuild, tmp>>
         ELSE Bail("tempdir_failed")
    /\ lastPrompt' = NoPrompt
    /\ UNCHANGED <<env, syncLocals, cache, destFiles, targets, log, steps>>

\* extract_tgz into the TempDir, the layout check.
Extract ==
    /\ pc = "extract"
    /\ \E status \in ExitStatuses,
          snapshot \in Snapshots :
         /\ Success(status) \/ ~snapshot.dir
         /\ Stepped(<<Exited("bsdtar", CurrentPkg, NoCmd, status)>>)
         /\ IF extract_tgz(status) = "err"
            THEN Bail("bsdtar_failed")
            ELSE IF ~snapshot.dir
            THEN Bail("bad_layout")
            ELSE /\ workspace' = workspace
                 /\ hasPkgbuild' = snapshot.recipe
                 /\ localFiles' = snapshot.files
                 /\ pc' = "review"
                 /\ UNCHANGED <<exit, error, tmp>>
    /\ lastPrompt' = NoPrompt
    /\ UNCHANGED <<env, syncLocals, cache, destFiles, targets, log>>

Review_EditorIgnored ==
    /\ pc = "review"
    /\ IF ~hasPkgbuild
       THEN /\ pc' = "packagelist"
            /\ lastPrompt' = NoPrompt
            /\ UNCHANGED <<exit, error, buildLocals, syncLocals, steps>>
       ELSE \E line \in InputLines, editor \in {"spawn_failed", "nonzero", "ok"} :
              LET view == prompt_yes_no(line)
                  edit == Event("editor", CurrentPkg, NoCmd)
              IN /\ lastPrompt' = Asked("view", line, view)
                 /\ IF ~view
                    THEN /\ pc' = "packagelist"
                         /\ UNCHANGED <<exit, error, buildLocals, syncLocals, steps>>
                    ELSE IF editor = "spawn_failed"
                    THEN /\ Bail("editor_failed")
                         /\ UNCHANGED <<syncLocals, steps>>
                    ELSE IF editor = "nonzero"
                    THEN /\ pc' = "packagelist"
                         /\ Stepped(<<edit, Event("abort_notice_editor", CurrentPkg, NoCmd)>>)
                         /\ UNCHANGED <<exit, error, buildLocals, syncLocals>>
                    ELSE /\ pc' = "packagelist"
                         /\ Stepped(<<edit>>)
                         /\ UNCHANGED <<exit, error, buildLocals, syncLocals>>
    /\ UNCHANGED <<env, cache, destFiles, targets, log>>

\* 1.5) the optional PKGBUILD review
Review ==
    /\ pc = "review"
    /\ IF ~hasPkgbuild
       THEN /\ pc' = "packagelist"
            /\ lastPrompt' = NoPrompt
            /\ UNCHANGED <<exit, error, buildLocals, syncLocals, steps>>
       ELSE \E line \in InputLines, editor \in {"spawn_failed", "nonzero", "ok"} :
              LET view == prompt_yes_no(line)
                  edit == Event("editor", CurrentPkg, NoCmd)
              IN /\ lastPrompt' = Asked("view", line, view)
                 /\ IF ~view
                    THEN /\ pc' = "packagelist"
                         /\ UNCHANGED <<exit, error, buildLocals, syncLocals, steps>>
                    ELSE IF editor = "spawn_failed"
                    THEN /\ Bail("editor_failed")
                         /\ UNCHANGED <<syncLocals, steps>>
                    ELSE IF editor = "nonzero"
                    THEN /\ NextAurPkg
                         /\ Stepped(<<edit, Event("abort_notice_editor", CurrentPkg, NoCmd)>>)
                    ELSE /\ pc' = "packagelist"
                         /\ Stepped(<<edit>>)
                         /\ UNCHANGED <<exit, error, buildLocals, syncLocals>>
    /\ UNCHANGED <<env, cache, destFiles, targets, log>>

\* 2) let targets = packagelist(&build_dir, &cfg.pkgdest)?; the empty check
Packagelist ==
    /\ pc = "packagelist"
    /\ \E exited0 \in BOOLEAN, listing \in ListingOutputs :
         /\ exited0 \/ listing = <<>>
         /\ Stepped(<<Captured("makepkg_packagelist", CurrentPkg, NoCmd, listing)>>)
         /\ IF ~exited0
            THEN Bail("packagelist_failed") /\ UNCHANGED targets
            ELSE IF packagelist(listing) = <<>>
            THEN Bail("packagelist_empty") /\ UNCHANGED targets
            ELSE /\ targets' = packagelist(listing)
                 /\ pc' = "prepare"
                 /\ UNCHANGED <<exit, error, workspace, localFiles, hasPkgbuild, tmp>>
    /\ lastPrompt' = NoPrompt
    /\ UNCHANGED <<env, syncLocals, cache, destFiles, log>>

\* The files left after the force loop: each existing one is removed unless
\* its remove_file fails, and the failure is discarded (`let _ =`).
ForceRemove(files, kept) ==
    IF force THEN (files \ Range(targets)) \cup kept ELSE files

\* if !force && all_exist { skip } else { build }
SkipRebuild_Inverted(all_exist) == ~force /\ ~all_exist

SkipRebuild(all_exist) == ~force /\ all_exist

\* 3) force handling, then the all_exist test that selects build or skip
Prepare ==
    /\ pc = "prepare"
    /\ \E keptDest \in SUBSET (destFiles \cap Range(targets)),
          keptLocal \in SUBSET (localFiles \cap Range(targets)) :
         /\ force \/ (keptDest = {} /\ keptLocal = {})
         /\ destFiles' = ForceRemove(destFiles, keptDest)
         /\ localFiles' = ForceRemove(localFiles, keptLocal)
         /\ Stepped((IF Range(targets) \subseteq destFiles
                     THEN <<Event("planned_paths_exist", CurrentPkg, NoCmd)>>
                     ELSE <<>>)
                 \o (IF force /\ (destFiles' # destFiles \/ localFiles' # localFiles)
                     THEN <<Event("remove_file", CurrentPkg, NoCmd)>>
                     ELSE <<>>))
    /\ LET all_exist == \A t \in Range(targets) : t \in destFiles'
       IN pc' = IF SkipRebuild(all_exist) THEN "install" ELSE "build"
    /\ lastPrompt' = NoPrompt
    /\ UNCHANGED <<env, syncLocals, cache, exit, error, workspace, hasPkgbuild, tmp, targets, log>>

\* The makepkg build command of step 4.
makepkg_build ==
    Command(Tok("makepkg"),
            <<Tok("--clean"), Tok("--cleanbuild"), Tok("--syncdeps"), Tok("--needed"),
              Tok("--log"), Tok("--config"), Tok("/etc/makepkg.conf")>>
                \o (IF force THEN <<Tok("-f"), Tok("-C")>> ELSE <<>>))

\* 4) the build, 5) the relocation of artifacts left in the build directory
Build ==
    /\ pc = "build"
    /\ \E status \in ExitStatuses,
          atDest \in SUBSET Range(targets),
          atLocal \in SUBSET Range(targets),
          renameOk \in BOOLEAN :
         LET built == destFiles \cup atDest
             local == localFiles \cup atLocal
             moved == {t \in Range(targets) : t \notin built /\ t \in local}
         IN /\ Stepped(<<Exited("makepkg_build", CurrentPkg, makepkg_build, status)>>)
            /\ IF run_command_printing(status) = "err"
               THEN /\ atDest = {} /\ atLocal = {} /\ renameOk
                    /\ Bail("build_failed")
                    /\ UNCHANGED destFiles
               ELSE IF moved # {} /\ ~renameOk
               THEN /\ Bail("rename_failed")
                    /\ destFiles' = built
               ELSE /\ renameOk
                    /\ destFiles' = built \cup moved
                    /\ localFiles' = local \ moved
                    /\ pc' = "install"
                    /\ UNCHANGED <<exit, error, workspace, hasPkgbuild, tmp>>
    /\ lastPrompt' = NoPrompt
    /\ UNCHANGED <<env, syncLocals, cache, targets, log>>

\* 6) pacman -U over the targets
Install ==
    /\ pc = "install"
    /\ \E status \in ExitStatuses :
         LET run == Exited("pacman_U", CurrentPkg, pacman_install_files(targets), status)
             res == run_command_printing_abort_ok(status)
         IN IF ~Spawns(run.cmd)
            THEN /\ Success(status)
                 /\ Bail("spawn_failed")
                 /\ UNCHANGED <<syncLocals, steps>>
            ELSE /\ Stepped(IF res = "aborted" THEN <<run, AbortNotice>> ELSE <<run>>)
                 /\ IF res = "err"
                    THEN Bail("install_failed") /\ UNCHANGED syncLocals
                    ELSE NextAurPkg
    /\ lastPrompt' = NoPrompt
    /\ UNCHANGED <<env, cache, destFiles, targets, log>>

(* ---------------------------- specification --------------------------- *)

Next ==
    \/ Main
    \/ Classify
    \/ Planned
    \/ RepoOnly
    \/ Confirm
    \/ RepoStep
    \/ SyncDone
    \/ Fetch
    \/ Copy
    \/ Persist
    \/ MkTempDir
    \/ Extract
    \/ Review
    \/ Packagelist
    \/ Prepare
    \/ Build
    \/ Install

Spec == Init /\ [][Next]_vars

(* ------------------ run_command_printing, step by step ---------------- *)

\* The state of everything but the runner call, which the call leaves alone.
syncVars == <<pkgs, force, isRoot, missing, inRepo, inAur, cache, destFiles, tmp, pc,
              i, j, repo_pkgs, aur_pkgs, plan, workspace, localFiles, hasPkgbuild,
              targets, exit, error, lastPrompt, log, steps>>

\* One call of run_command_printing ("plain") or of
\* run_command_printing_abort_ok ("abort_ok"), about to spawn a child that
\* will write some chunks to its stdout and to its stderr.
RelayInit ==
    /\ pkgs = <<"a">> /\ force = FALSE /\ isRoot = FALSE /\ missing = {}
    /\ inRepo = {} /\ inAur = {} /\ cache = {} /\ destFiles = {} /\ tmp = NoTmp
    /\ pc = "runner" /\ i = 1 /\ j = 1
    /\ repo_pkgs = <<>> /\ aur_pkgs = <<>> /\ plan = <<>>
    /\ workspace = FALSE /\ localFiles = {} /\ hasPkgbuild = FALSE /\ targets = <<>>
    /\ exit = "running" /\ error = "none" /\ lastPrompt = NoPrompt
    /\ log = <<>> /\ steps = <<>>
    /\ dirs = [n \in Names |-> "none"]
    /\ \E variant \in {"plain", "abort_ok"}, o \in 0..MaxChunks, e \in 0..MaxChunks :
         runner = [RunIdle EXCEPT !.variant = variant, !.pos = "spawn",
                               !.leftOut = o, !.leftErr = e]

\* cmd.stdout(piped).stderr(piped).spawn()?
RunSpawn ==
    /\ runner.pos = "spawn"
    /\ \E spawned \in BOOLEAN :
         runner' = IF spawned
                THEN [runner EXCEPT !.child = "running", !.pos = "spawn_t1"]
                ELSE [runner EXCEPT !.result = "err", !.pos = "returned"]
    /\ UNCHANGED <<syncVars, dirs>>

\* let t1 = std::thread::spawn(... io::copy(&mut out, &mut stdout).ok() ...)
RunSpawnT1 ==
    /\ runner.pos = "spawn_t1"
    /\ runner' = [runner EXCEPT !.t1 = "running", !.pos = "spawn_t2"]
    /\ UNCHANGED <<syncVars, dirs>>

\* let t2 = std::thread::spawn(... io::copy(&mut err, &mut stderr).ok() ...)
RunSpawnT2 ==
    /\ runner.pos = "spawn_t2"
    /\ runner' = [runner EXCEPT !.t2 = "running", !.pos = "wait"]
    /\ UNCHANGED <<syncVars, dirs>>

\* The child writes a chunk to its stdout pipe.
ChildWriteOut ==
    /\ runner.child = "running"
    /\ runner.leftOut > 0
    /\ runner' = [runner EXCEPT !.leftOut = @ - 1, !.pipeOut = @ + 1]
    /\ UNCHANGED <<syncVars, dirs>>

\* The child writes a chunk to its stderr pipe.
ChildWriteErr ==
    /\ runner.child = "running"
    /\ runner.leftErr > 0
    /\ runner' = [runner EXCEPT !.leftErr = @ - 1, !.pipeErr = @ + 1]
    /\ UNCHANGED <<syncVars, dirs>>

\* The child ends, with whatever it had still meant to write unwritten; the
\* write ends of both pipes are closed.
ChildExit ==
    /\ runner.child = "running"
    /\ \E status \in ExitStatuses :
         runner' = [runner EXCEPT !.child = "exited", !.status = status,
                            !.leftOut = 0, !.leftErr = 0]
    /\ UNCHANGED <<syncVars, dirs>>

\* t1: io::copy moves a chunk from the pipe to stdout, returns at end of
\* file, or returns early with an error, which .ok() discards.
RelayOut ==
    /\ runner.t1 = "running"
    /\ \E failed \in BOOLEAN :
         runner' = IF failed
                THEN [runner EXCEPT !.t1 = "done"]
                ELSE IF runner.pipeOut > 0
                THEN [runner EXCEPT !.pipeOut = @ - 1, !.fwdOut = @ + 1]
                ELSE IF runner.child = "exited"
                THEN [runner EXCEPT !.t1 = "done"]
                ELSE runner
    /\ UNCHANGED <<syncVars, dirs>>

\* t2: the same between the stderr pipe and stderr.
RelayErr ==
    /\ runner.t2 = "running"
    /\ \E failed \in BOOLEAN :
         runner' = IF failed
                THEN [runner EXCEPT !.t2 = "done"]
                ELSE IF runner.pipeErr > 0
                THEN [runner EXCEPT !.pipeErr = @ - 1, !.fwdErr = @ + 1]
                ELSE IF runner.child = "exited"
                THEN [runner EXCEPT !.t2 = "done"]
                ELSE runner
    /\ UNCHANGED <<syncVars, dirs>>

\* let status = child.wait()?; returns the status of a child that has ended,
\* or an error, which `?` returns to the caller at once.
RunWait ==
    /\ runner.pos = "wait"
    /\ \E waited \in BOOLEAN :
         /\ waited => runner.child = "exited"
         /\ runner' = IF waited
                    THEN [runner EXCEPT !.pos = "join_t1"]
                    ELSE [runner EXCEPT !.result = "err", !.pos = "returned"]
    /\ UNCHANGED <<syncVars, dirs>>

\* let _ = t1.join();
RunJoinT1 ==
    /\ runner.pos = "join_t1"
    /\ runner.t1 = "done"
    /\ runner' = [runner EXCEPT !.pos = "join_t2"]
    /\ UNCHANGED <<syncVars, dirs>>

\* let _ = t2.join();
RunJoinT2 ==
    /\ runner.pos = "join_t2"
    /\ runner.t2 = "done"
    /\ runner' = [runner EXCEPT !.pos = "check"]
    /\ UNCHANGED <<syncVars, dirs>>

\* The test of the status and the return.
RunReturn ==
    /\ runner.pos = "check"
    /\ runner' = [runner EXCEPT !.pos = "returned",
                           !.result = IF runner.variant = "plain"
                                      THEN run_command_printing(runner.status)
                                      ELSE run_command_printing_abort_ok(runner.status)]
    /\ UNCHANGED <<syncVars, dirs>>

RelayNext ==
    \/ RunSpawn
    \/ RunSpawnT1
    \/ RunSpawnT2
    \/ ChildWriteOut
    \/ ChildWriteErr
    \/ ChildExit
    \/ RelayOut
    \/ RelayErr
    \/ RunWait
    \/ RunJoinT1
    \/ RunJoinT2
    \/ RunReturn

RelaySpec == RelayInit /\ [][RelayNext]_vars

(* ------------------------ yao -G: cmd_getpkgbuild --------------------- *)

\* An invocation with -G: the AUR, the cache and the working directory are
\* arbitrary where the names of the request can reach them.
GetInit ==
    /\ pkgs \in Requests
    /\ force = FALSE /\ isRoot = FALSE /\ missing = {}
    /\ inRepo = {}
    /\ inAur \in SUBSET Range(pkgs)
    /\ cache \in SUBSET inAur
    /\ dirs \in [Names -> {"none", "old"}]
    /\ \A n \in Names \ Range(pkgs) : dirs[n] = "none"
    /\ destFiles = {} /\ tmp = NoTmp
    /\ pc = "get_main" /\ i = 1 /\ j = 1
    /\ repo_pkgs = <<>> /\ aur_pkgs = <<>> /\ plan = <<>>
    /\ workspace = FALSE /\ localFiles = {} /\ hasPkgbuild = FALSE /\ targets = <<>>
    /\ exit = "running" /\ error = "none" /\ lastPrompt = NoPrompt
    /\ log = <<>> /\ steps = <<>>
    /\ runner = RunIdle

\* What no step of cmd_getpkgbuild changes.
getFrame == <<pkgs, force, isRoot, missing, inRepo, inAur, destFiles, j, repo_pkgs,
              aur_pkgs, plan, targets, lastPrompt, steps, runner>>

\* main with -G: ensure_tools, the two create_dir_all, then cmd_getpkgbuild
\* up to its loop.
GetMain ==
    /\ pc = "get_main"
    /\ \E mkdir \in {"mkdir_failed", "ok"} :
         IF ensure_tools # "ok"
         THEN mkdir = "ok" /\ Bail(ensure_tools)
         ELSE IF mkdir # "ok"
         THEN Bail(mkdir)
         ELSE IF pkgs = <<>>
         THEN Bail("no_packages")
         ELSE /\ pc' = "get_lookup"
              /\ UNCHANGED <<exit, error, buildLocals>>
    /\ UNCHANGED <<getFrame, i, cache, dirs, log>>

GetLookup_RemoveFirst ==
    /\ pc = "get_lookup"
    /\ i <= Len(pkgs)
    /\ \E response \in {"http_error", "ok"} :
         LET p == pkgs[i]
         IN /\ Logged(<<Event("aur_rpc", p, NoCmd)>>)
            /\ dirs' = [dirs EXCEPT ![p] = "none"]
            /\ IF response = "http_error"
               THEN Bail("rpc_failed")
               ELSE IF p \notin inAur
               THEN Bail("not_found")
               ELSE /\ pc' = "get_fetch"
                    /\ UNCHANGED <<exit, error, buildLocals>>
    /\ UNCHANGED <<getFrame, i, cache>>

\* if !aur_exists(&client, &p)? { bail!("{p} not found in AUR"); }
GetLookup ==
    /\ pc = "get_lookup"
    /\ i <= Len(pkgs)
    /\ \E response \in {"http_error", "ok"} :
         LET p == pkgs[i]
         IN /\ Logged(<<Event("aur_rpc", p, NoCmd)>>)
            /\ dirs' = dirs
            /\ IF response = "http_error"
               THEN Bail("rpc_failed")
               ELSE IF p \notin inAur
               THEN Bail("not_found")
               ELSE /\ pc' = "get_fetch"
                    /\ UNCHANGED <<exit, error, buildLocals>>
    /\ UNCHANGED <<getFrame, i, cache>>

\* let tgz = download_snapshot(&client, cfg, &p)?;
GetFetch ==
    /\ pc = "get_fetch"
    /\ \E response \in {"download_failed", "io_error", "ok"} :
         download_snapshot(pkgs[i], response)
    /\ UNCHANGED <<getFrame, i, dirs>>

\* extract_tgz, then the replacement of ./<p>: remove_dir_all of a directory
\* that exists, which may fail having removed nothing or a part; rename of
\* <tmp>/<p>, which fails when the archive held no such directory.
GetSave ==
    /\ pc = "extract"
    /\ \E status \in ExitStatuses,
          snapshot \in {s \in Snapshots : s.files = {}},
          removed \in {"failed", "failed_midway", "ok"},
          renamed \in BOOLEAN :
         LET p == pkgs[i]
         IN /\ Logged(<<Exited("bsdtar", p, NoCmd, status)>>)
            /\ (extract_tgz(status) = "err") => (~snapshot.dir /\ removed = "ok" /\ renamed)
            /\ (dirs[p] = "none") => removed = "ok"
            /\ (removed # "ok") => renamed
            /\ snapshot.dir \/ renamed
            /\ IF extract_tgz(status) = "err"
               THEN /\ Bail("bsdtar_failed")
                    /\ UNCHANGED <<dirs, i>>
               ELSE IF removed # "ok"
               THEN /\ Bail("remove_failed")
                    /\ dirs' = IF removed = "failed" THEN dirs ELSE [dirs EXCEPT ![p] = "damaged"]
                    /\ UNCHANGED i
               ELSE IF ~snapshot.dir \/ ~renamed
               THEN /\ Bail("rename_failed")
                    /\ dirs' = [dirs EXCEPT ![p] = "none"]
                    /\ UNCHANGED i
               ELSE /\ dirs' = [dirs EXCEPT ![p] = "new"]
                    /\ i' = i + 1
                    /\ pc' = "get_lookup"
                    /\ DropBuildLocals
                    /\ UNCHANGED <<exit, error>>
    /\ UNCHANGED <<getFrame, cache>>

\* The loop has no name left: Ok(())
GetDone ==
    /\ pc = "get_lookup"
    /\ i > Len(pkgs)
    /\ ReturnOk
    /\ UNCHANGED <<getFrame, i, cache, dirs, log>>

GetNext ==
    \/ GetMain
    \/ GetLookup
    \/ GetFetch
    \/ Copy
    \/ Persist
    \/ MkTempDir
    \/ GetSave
    \/ GetDone

GetSpec == GetInit /\ [][GetNext]_vars

(* ------------------------------ claims -------------------------------- *)

HasOp(h, op) == \E k \in 1..Len(h) : h[k].op = op

ConfirmedBefore(k) == \E m \in 1..(k - 1) : log[m].op = "confirm_yes"

\* The request holds a name that only the source-build repository can provide.
SourceBuildRequested == \E n \in Range(pkgs) : n \notin inRepo

\* C1 as stated: no pacman -S and no pacman -U is started unless the
\* orchestrator's own prompt was answered affirmatively earlier in the run.
C1_Original ==
    /\ \A k \in 1..Len(log) : log[k].op = "pacman_S" => ConfirmedBefore(k)
    /\ HasOp(steps, "pacman_U") => HasOp(log, "confirm_yes")

\* C1 (amended): when the request holds a SourceBuild name, no pacman -S and
\* no pacman -U is started unless the orchestrator's own prompt was answered
\* affirmatively earlier in the run; a request of BinaryRepo names only goes
\* to pacman -S without the orchestrator's prompt being shown.
C1_Amended ==
    /\ \A k \in 1..Len(log) :
         log[k].op = "pacman_S" =>
           IF SourceBuildRequested
           THEN ConfirmedBefore(k)
           ELSE ~HasOp(log, "confirm_yes") /\ ~HasOp(log, "confirm_no")
    /\ HasOp(steps, "pacman_U") => HasOp(log, "confirm_yes")

C1_Witness == HasOp(log, "pacman_S") /\ HasOp(steps, "pacman_U")

\* C2: once pacman -S has ended with the declined code (its run is followed
\* by the abort notice), nothing more is done: no AUR item is started and the
\* invocation ends with status 0.
C2_Claim ==
    \A k \in 1..(Len(log) - 1) :
      (log[k].op = "pacman_S" /\ log[k + 1].op = "abort_notice") =>
        /\ Len(log) = k + 1
        /\ steps = <<>>
        /\ pc = "exit" => exit = "ok"

\* What the specification calls an affirmative and a negative answer, line
\* by line of InputLines.
AffirmativeLines ==
    { <<>>, <<"\n">>, <<"Y", "\r", "\n">>, <<" ", "Y", "E", "s", "\n">> }

NegativeLines == { <<"n", "\n">>, <<"N", "o", " ", "\n">> }

\* C3 as stated: "", y, yes proceed; n, no abort; on any other line the prompt
\* is shown again, so the program is still at that prompt.
C3_Original ==
    lastPrompt.asked =>
      /\ lastPrompt.result <=> lastPrompt.line \in AffirmativeLines
      /\ (lastPrompt.prompt = "proceed" /\ lastPrompt.line \in NegativeLines)
           => (pc = "exit" /\ exit = "ok")
      /\ lastPrompt.line \notin (AffirmativeLines \cup NegativeLines)
           => pc = (IF lastPrompt.prompt = "proceed" THEN "confirm" ELSE "review")

\* C3 (amended): the prompt returns 'proceed' exactly when the trimmed,
\* case-folded line is "", "y" or "yes", and 'abort' on every other line,
\* "n", "no" and unrecognised ones alike; it never asks again.
C3_Amended ==
    lastPrompt.asked =>
      /\ lastPrompt.result <=> lastPrompt.line \in AffirmativeLines
      /\ lastPrompt.prompt = "proceed" =>
           IF lastPrompt.result
           THEN pc = "repo_step"
           ELSE pc = "exit" /\ exit = "ok" /\ log[Len(log)].op = "abort_notice"
      /\ (lastPrompt.prompt = "view" /\ ~lastPrompt.result) => pc = "packagelist"

C3_Witness ==
    /\ lastPrompt.asked
    /\ lastPrompt.prompt = "proceed"
    /\ lastPrompt.line \notin (AffirmativeLines \cup NegativeLines)
    /\ pc = "exit"

\* The arguments of a command line that follow the given flag.
RECURSIVE AfterFlag(_, _)
AfterFlag(args, flag) ==
    IF args = <<>> THEN <<>>
    ELSE IF Head(args) = Tok(flag) THEN Tail(args)
    ELSE AfterFlag(Tail(args), flag)

NamesIn(toks) == [k \in 1..Len(toks) |-> toks[k][1]]

\* The names whose install or build pipeline was started, in that order.
RECURSIVE ProcessedIn(_)
ProcessedIn(h) ==
    IF h = <<>> THEN <<>>
    ELSE (CASE Head(h).op = "pacman_S" -> NamesIn(AfterFlag(Head(h).cmd.args, "-S"))
            [] Head(h).op = "aur_building" -> <<Head(h).name>>
            [] OTHER -> <<>>)
         \o ProcessedIn(Tail(h))

Processed == ProcessedIn(log)

IsPrefix(s, t) == Len(s) <= Len(t) /\ s = SubSeq(t, 1, Len(s))

RepoRequested == SelectSeq(pkgs, LAMBDA n : n \in inRepo)

AurRequested == SelectSeq(pkgs, LAMBDA n : n \notin inRepo)

\* C4 as stated: the pipelines are started in the order of the request.
C4_Original == IsPrefix(Processed, pkgs)

\* C4 (amended): the BinaryRepo names are installed first, by one pacman -S
\* that names them in request order; the SourceBuild names are then processed
\* one by one in request order.
C4_Amended ==
    /\ IsPrefix(Processed, RepoRequested \o AurRequested)
    /\ Cardinality({k \in 1..Len(log) : log[k].op = "pacman_S"}) <= 1

C4_Witness ==
    /\ Len(pkgs) >= 2
    /\ pkgs[1] \notin inRepo
    /\ pkgs[2] \in inRepo
    /\ Processed = <<pkgs[2], pkgs[1]>>

NoPackageWork ==
    /\ \A k \in 1..Len(log) : log[k].op \in {"pacman_Si", "aur_rpc"}
    /\ steps = <<>>
    /\ ~lastPrompt.asked

\* C5: once a requested name was looked up and is in neither repository, the
\* invocation has failed with a non-zero exit and nothing but the lookups
\* was done: no prompt, no download, no build, no install.
C5_Theorem ==
    \A k \in 1..Len(log) :
      (log[k].op = "aur_rpc" /\ log[k].name \notin inAur) =>
        (pc = "exit" /\ exit = "err" /\ NoPackageWork)

C5_Witness == error = "not_found" /\ Len(plan) >= 1

\* C6: a name the binary repository has is classified Repo whatever the AUR
\* holds, and no RPC lookup, snapshot request or build is made for it; a name
\* classified Aur is never an argument of pacman -S.
C6_Theorem ==
    /\ \A k \in 1..Len(plan) : pkgs[k] \in inRepo => plan[k].kind = "Repo"
    /\ \A k \in 1..Len(log) :
         log[k].op \in {"aur_rpc", "http_get", "aur_building"} => log[k].name \notin inRepo
    /\ \A k \in 1..Len(log), m \in 1..Len(plan) :
         (log[k].op = "pacman_S" /\ plan[m].kind = "Aur") =>
           plan[m].name \notin Range(NamesIn(AfterFlag(log[k].cmd.args, "-S")))

C6_Witness ==
    /\ inRepo \cap inAur # {}
    /\ HasOp(log, "pacman_S")
    /\ HasOp(steps, "pacman_U")

\* The errors download_snapshot returns.
FetchFailures == {"download_failed", "io_error", "copy_failed", "persist_failed"}

Count(h, op, n) == Cardinality({k \in 1..Len(h) : h[k].op = op /\ h[k].name = n})

LastFetch == CHOOSE k \in 1..Len(log) :
               /\ log[k].op = "aur_building"
               /\ \A m \in (k + 1)..Len(log) : log[m].op # "aur_building"

\* C7: all the fetches of a name make at most one request together, a request
\* is made only by the first fetch of the name, and the archive of every
\* fetch that returned is still in the cache.
C7_Theorem ==
    \A n \in Names :
      /\ Count(log, "http_get", n) <= 1
      /\ \A k \in 1..Len(log) :
           (log[k].op = "http_get" /\ log[k].name = n) =>
             \A m \in 1..(k - 2) : ~(log[m].op = "aur_building" /\ log[m].name = n)
      /\ \A k \in 1..Len(log) :
           ( /\ log[k].op = "aur_building"
             /\ log[k].name = n
             /\ n \notin cache )
           => (k = LastFetch /\ (pc \in {"copy", "persist"} \/ error \in FetchFailures))

C7_Witness ==
    \E n \in Names : Count(log, "aur_building", n) = 2 /\ Count(log, "http_get", n) = 1

\* C8: without force, when every planned path existed at its destination,
\* makepkg is not run in build mode, the next stage is the install (which
\* has run unless its command could not be spawned), and pacman -U gets
\* exactly the planned paths in plan order.
C8_Theorem ==
    (~force /\ HasOp(steps, "planned_paths_exist")) =>
      /\ ~HasOp(steps, "makepkg_build")
      /\ pc = "install" \/ HasOp(steps, "pacman_U") \/ error = "spawn_failed"
      /\ \A k \in 1..Len(steps) :
           steps[k].op = "pacman_U" => AfterFlag(steps[k].cmd.args, "-U") = targets

C8_Witness ==
    /\ ~force
    /\ HasOp(steps, "planned_paths_exist")
    /\ HasOp(steps, "pacman_U")
    /\ Len(targets) = 2

\* C9: with force, when makepkg is about to run in build mode no planned path
\* is present, neither at its destination nor in the build directory; and
\* pacman -U never runs before the build.
C9_Claim ==
    /\ (force /\ pc = "build") => Range(targets) \cap (destFiles \cup localFiles) = {}
    /\ (force /\ HasOp(steps, "pacman_U")) => HasOp(steps, "makepkg_build")

BlankOnly(out) == \A k \in 1..Len(out) : out[k] \in WhiteSpace

\* C10: after a listing that holds no artifact path the call has failed with
\* a non-zero exit and did nothing more: no removal, no build, no install.
C10_Theorem ==
    \A k \in 1..Len(steps) :
      (steps[k].op = "makepkg_packagelist" /\ BlankOnly(steps[k].out)) =>
        (k = Len(steps) /\ pc = "exit" /\ exit = "err")

C10_Witness ==
    /\ steps # <<>>
    /\ steps[Len(steps)].op = "makepkg_packagelist"
    /\ steps[Len(steps)].out = <<"\n", " ", "\t", "\n">>
    /\ error = "packagelist_empty"

\* C11: after a build that exited successfully, pacman -U is only given paths
\* that exist at their destination, and the install stage is not reached
\* when no planned path exists.
C11_Claim ==
    HasOp(steps, "makepkg_build") =>
      /\ \A k \in 1..Len(steps) :
           steps[k].op = "pacman_U" =>
             Range(AfterFlag(steps[k].cmd.args, "-U")) \subseteq destFiles
      /\ pc = "install" => Range(targets) \cap destFiles # {}

\* The stages of one source-build sequence, in the order of the code.
StageOps == {"bsdtar", "editor", "makepkg_packagelist", "makepkg_build", "pacman_U"}

StageRank(op) ==
    CASE op = "bsdtar" -> 1
      [] op = "editor" -> 2
      [] op = "makepkg_packagelist" -> 3
      [] op = "makepkg_build" -> 4
      [] op = "pacman_U" -> 5

StagesRun == SelectSeq(steps, LAMBDA e : e.op \in StageOps)

\* The stage whose failure each error of the source-build path reports.
FailedStage(e) ==
    CASE e \in FetchFailures -> "http_get"
      [] e \in {"bsdtar_failed", "bad_layout"} -> "bsdtar"
      [] e = "packagelist_failed" -> "makepkg_packagelist"
      [] e = "build_failed" -> "makepkg_build"
      [] OTHER -> "pacman_U"

SourceBuildFailures ==
    FetchFailures \cup {"bsdtar_failed", "bad_layout", "packagelist_failed", "build_failed"}

SourceBuildFailed ==
    error \in SourceBuildFailures \/ (error = "install_failed" /\ steps # <<>>)

Started == SelectSeq(log, LAMBDA e : e.op = "aur_building")

\* C12: no stage of a package is run twice and none out of order; once a
\* stage of the source-build path has failed the invocation has ended with a
\* non-zero exit, the failed stage is the last thing that was run for the
\* package, and no later item of the batch was started.
C12_Theorem ==
    LET stages == StagesRun
        started == Started
    IN /\ \A k \in 1..(Len(stages) - 1) :
            StageRank(stages[k].op) < StageRank(stages[k + 1].op)
       /\ \A k \in 1..(Len(started) - 1) : started[k].name = aur_pkgs[k]
       /\ SourceBuildFailed =>
            /\ pc = "exit" /\ exit = "err"
            /\ Len(started) = j /\ j <= Len(aur_pkgs)
            /\ started[j].name = aur_pkgs[j]
            /\ IF FailedStage(error) = "http_get"
               THEN steps = <<>> /\ log[Len(log)].op = "http_get"
               ELSE /\ stages # <<>>
                    /\ stages[Len(stages)].op = FailedStage(error)
                    /\ stages[Len(stages)].name = aur_pkgs[j]

\* A build of the first item failed while a second item was still to come.
C12_Witness ==
    /\ error = "build_failed"
    /\ j = 1
    /\ Len(aur_pkgs) = 2
    /\ Len(Started) = 1

\* What the result of the call that ran entry k of history h was: "err" when
\* the invocation failed there with the given error, "aborted" when the
\* abort notice follows the entry, "ok" otherwise.
OutcomeAt(h, k, failure) ==
    IF k = Len(h) /\ pc = "exit" /\ exit = "err" /\ error = failure THEN "err"
    ELSE IF k < Len(h) /\ h[k + 1].op = "abort_notice" THEN "aborted"
    ELSE "ok"

InstallOutcome(status) ==
    CASE status.exited /\ status.code = 0 -> "ok"
      [] status.exited /\ status.code = 1 -> "aborted"
      [] OTHER -> "err"

ToolOutcome(status) == IF status.exited /\ status.code = 0 THEN "ok" ELSE "err"

\* C13: the outcome of pacman -S and of pacman -U is decided by the exit
\* status alone: 0 is success, 1 gives the abort notice and no error, any
\* other code or a signal is a fatal install failure; for makepkg and bsdtar
\* every status but exit 0, code 1 included, is fatal.
C13_Theorem ==
    /\ \A k \in 1..Len(log) :
         log[k].op = "pacman_S" =>
           /\ OutcomeAt(log, k, "install_failed") = InstallOutcome(log[k].status)
           /\ k < Len(log) => InstallOutcome(log[k].status) # "err"
    /\ \A k \in 1..Len(steps) :
         /\ steps[k].op = "pacman_U" =>
              /\ OutcomeAt(steps, k, "install_failed") = InstallOutcome(steps[k].status)
              /\ k < Len(steps) => InstallOutcome(steps[k].status) = "aborted"
         /\ steps[k].op = "makepkg_build" =>
              /\ OutcomeAt(steps, k, "build_failed") = ToolOutcome(steps[k].status)
              /\ k < Len(steps) => ToolOutcome(steps[k].status) = "ok"
         /\ steps[k].op = "bsdtar" =>
              /\ OutcomeAt(steps, k, "bsdtar_failed") = ToolOutcome(steps[k].status)
              /\ k < Len(steps) => ToolOutcome(steps[k].status) = "ok"

\* The installer was killed by a signal, and makepkg before it had exited 0.
C13_Witness ==
    /\ steps # <<>>
    /\ steps[Len(steps)].op = "pacman_U"
    /\ ~steps[Len(steps)].status.exited
    /\ HasOp(steps, "makepkg_build")
    /\ error = "install_failed"

\* C14: after "n" or "no" at the orchestrator's prompt the invocation has
\* ended with status 0, and the answer is followed by the abort notice only:
\* no download, no extraction, no removal, no build and no install, for any
\* item of the plan.
C14_Theorem ==
    /\ (lastPrompt.asked /\ lastPrompt.prompt = "proceed" /\ lastPrompt.line \in NegativeLines)
         => HasOp(log, "confirm_no")
    /\ \A k \in 1..Len(log) :
         log[k].op = "confirm_no" =>
           /\ pc = "exit" /\ exit = "ok"
           /\ Len(log) = k + 1 /\ log[k + 1].op = "abort_notice"
           /\ \A m \in 1..(k - 1) : log[m].op \in {"pacman_Si", "aur_rpc"}
           /\ steps = <<>> /\ targets = <<>> /\ ~workspace

\* "n" was answered for a plan that holds a repo item and a source-build item.
C14_Witness ==
    /\ lastPrompt.asked
    /\ lastPrompt.prompt = "proceed"
    /\ lastPrompt.line = <<"n", "\n">>
    /\ repo_pkgs # <<>>
    /\ aur_pkgs # <<>>
    /\ pc = "exit"

\* The programs the invocation needs: the elevation command only when the
\* process is not privileged.
RequiredTools == {"bsdtar", "makepkg", "pacman"} \cup (IF isRoot THEN {} ELSE {"sudo"})

\* C15: when a required program is missing, no package work is done: nothing
\* is looked up, asked, downloaded, built or installed, and an invocation
\* that has ended has ended with the ToolMissing error.
C15_Claim ==
    (RequiredTools \cap missing # {}) =>
      /\ log = <<>> /\ steps = <<>> /\ ~lastPrompt.asked
      /\ pc = "exit" => (exit = "err" /\ error = "tool_missing")

\* C16: the set of published archives changes only by the step that renames
\* a fully written temporary file to the cache path of the name being
\* fetched; while the temporary file exists there is no file at that path;
\* and a fetch that fails leaves the set unchanged, the name unpublished and
\* no temporary file behind.
C16_Theorem ==
    [][ /\ cache' # cache =>
             (pc = "persist" /\ tmp.content = "full" /\ cache' = cache \cup {CurrentPkg})
        /\ tmp'.content # "none" => (tmp'.name = CurrentPkg /\ CurrentPkg \notin cache')
        /\ (error = "none" /\ error' \in FetchFailures) =>
             (cache' = cache /\ CurrentPkg \notin cache' /\ tmp'.content = "none") ]_vars

\* The transfer of the second archive failed midway after the first archive
\* had been downloaded and published.
C16_Witness ==
    /\ error = "copy_failed"
    /\ j = 2
    /\ aur_pkgs[1] \in cache
    /\ Count(log, "http_get", aur_pkgs[1]) = 1
    /\ aur_pkgs[2] \notin cache

\* C17: a workspace exists only between its creation and the end of the
\* sequence of the package it was created for: there is none when the next
\* package is about to start or when the invocation has ended, whatever the
\* way the sequence ended, and nothing of its content outlives it.
C17_Theorem ==
    /\ workspace => pc \in {"extract", "review", "packagelist", "prepare", "build", "install"}
    /\ ~workspace => (localFiles = {} /\ ~hasPkgbuild)

\* The install of the first package was declined and the second package is
\* about to start.
C17_Witness ==
    /\ pc = "aur_loop"
    /\ j = 2
    /\ Len(aur_pkgs) = 2
    /\ HasOp(steps, "makepkg_build")
    /\ steps[Len(steps)].op = "abort_notice"
    /\ ~workspace

\* The command line as the process receives it: program, then arguments.
Argv(cmd) == <<cmd.prog>> \o cmd.args

\* What elevation has to make of a command line.
Elevated(argv) == IF isRoot THEN argv ELSE <<<<"sudo">>>> \o argv

\* C18: every install command that is run is, token for token, the original
\* command line (pacman, -S or -U, the names or the paths in order), prefixed
\* with the elevation command as one more token exactly when the process is
\* not privileged.
C18_Theorem ==
    /\ \A k \in 1..Len(log) :
         log[k].op = "pacman_S" =>
           Argv(log[k].cmd) = Elevated(<<<<"pacman">>, <<"-S">>>> \o ToksOf(repo_pkgs))
    /\ \A k \in 1..Len(steps) :
         steps[k].op = "pacman_U" =>
           Argv(steps[k].cmd) = Elevated(<<<<"pacman">>, <<"-U">>>> \o targets)

\* An unprivileged run that installed a repo name and two package files.
C18_Witness ==
    /\ ~isRoot
    /\ HasOp(log, "pacman_S")
    /\ HasOp(steps, "pacman_U")
    /\ Len(targets) = 2

\* C19: once a runner call has returned its result, the child having been
\* spawned, both relay threads have ended and nothing the child wrote is
\* left in a pipe.
C19_Claim ==
    (runner.result # "none" /\ runner.child # "none") =>
      /\ runner.t1 = "done" /\ runner.t2 = "done"
      /\ runner.pipeOut = 0 /\ runner.pipeErr = 0

\* The errors of the lookup, the download and the extraction of -G.
GetFailures == {"rpc_failed", "not_found", "tempdir_failed", "bsdtar_failed"} \cup FetchFailures

\* The last entry of the log is an extraction of the name that ended well.
ExtractedNow(h, n) ==
    /\ h # <<>>
    /\ h[Len(h)].op = "bsdtar"
    /\ h[Len(h)].name = n
    /\ h[Len(h)].status = [exited |-> TRUE, code |-> 0]

\* The name was looked up in the AUR.
LookedUp(h, n) == \E k \in 1..Len(h) : h[k].op = "aur_rpc" /\ h[k].name = n

\* C20: a directory ./<name> that exists, be it from before the invocation
\* or saved for an earlier name, is removed or replaced only by the step that
\* has just extracted the archive of that name, the name having been found
\* in the AUR and its archive being in the cache; a failure of the lookup,
\* the download or the extraction changes no directory; and a name the loop
\* has passed has its directory saved.
C20_Theorem ==
    [][ /\ \A n \in Names :
             (dirs[n] # "none" /\ dirs'[n] # dirs[n]) =>
               /\ n = pkgs[i]
               /\ LookedUp(log, n) /\ n \in inAur
               /\ n \in cache
               /\ ExtractedNow(log', n)
        /\ (error = "none" /\ error' \in GetFailures) => dirs' = dirs
        /\ i' # i => dirs'[pkgs[i]] = "new" ]_vars

\* The second name's extraction failed: its old directory and the directory
\* saved for the first name are both there.
C20_Witness ==
    /\ Len(pkgs) = 2
    /\ pkgs[1] # pkgs[2]
    /\ i = 2
    /\ error = "bsdtar_failed"
    /\ dirs[pkgs[1]] = "new"
    /\ dirs[pkgs[2]] = "old"

\* The last thing the current or the last source-build sequence did was to
\* report the abort that a non-zero exit of the editor stands for.
EditorAborted == steps # <<>> /\ steps[Len(steps)].op = "abort_notice_editor"

\* What a source-build sequence does after the review of the recipe.
StepsAfterReview ==
    {"makepkg_packagelist", "planned_paths_exist", "remove_file", "makepkg_build", "pacman_U"}

\* C21: when the recipe is viewed and the editor exits non-zero, the abort
\* is reported and the sequence of that package ends there: no listing, no
\* deletion of artifacts, no build and no install is run for it, no file of
\* the destination changes, and the invocation is not failed but back in its
\* loop, one item further. The step that follows starts the next source-build
\* item when there is one, and otherwise ends the invocation with success.
C21_Theorem ==
    [][ /\ (~EditorAborted /\ EditorAborted') =>
             /\ pc = "review"
             /\ steps' = steps \o <<Event("editor", CurrentPkg, NoCmd),
                                    Event("abort_notice_editor", CurrentPkg, NoCmd)>>
             /\ \A k \in 1..Len(steps') : steps'[k].op \notin StepsAfterReview
             /\ destFiles' = destFiles /\ targets' = <<>> /\ log' = log
             /\ exit' = "running" /\ error' = "none"
             /\ pc' = "aur_loop" /\ j' = j + 1 /\ aur_pkgs' = aur_pkgs
        /\ EditorAborted =>
             /\ pc = "aur_loop"
             /\ IF j <= Len(aur_pkgs)
                THEN /\ Len(log') > Len(log)
                     /\ log'[Len(log) + 1] = Event("aur_building", aur_pkgs[j], NoCmd)
                     /\ steps' = <<>>
                ELSE pc' = "exit" /\ exit' = "ok" /\ error' = "none" ]_vars

\* The editor of the first of two source-build items exited non-zero: the
\* invocation is still running and the second item is the next to start.
C21_Witness ==
    /\ EditorAborted
    /\ steps[Len(steps)].name = aur_pkgs[1]
    /\ pc = "aur_loop"
    /\ j = 2
    /\ Len(aur_pkgs) = 2
    /\ exit = "running"

====
